---- MODULE Spec2Model ----
(***************************************************************************)
(* RandSqrt: the square-root-by-random-pairs page.                         *)
(*                                                                         *)
(*   src/src/routes/+page.svelte   the current page (sliders, CDF plot)    *)
(*   src/unnamed/part_000          an earlier variant of the same page     *)
(*                                                                         *)
(* Numbers are modelled on grids.  targetValue (R^2) is a numerator over   *)
(* TargetSteps (the target slider has 100 steps of 0.01; the model has     *)
(* TargetSteps of them).  A coordinate returned by Math.random() is a      *)
(* numerator over 2 (0 or 1/2) and is always < 1.  The point counts 100,   *)
(* 10000 and the chunk size 1000 are scaled to MinPoints, MaxPoints and    *)
(* chunkSize so that batches can be enumerated; the loop, the sort and the *)
(* threshold are written exactly as in the source and do not depend on     *)
(* the scale.  Arithmetic on the grids is exact: the rounding of IEEE      *)
(* doubles in numPoints * targetValue is not modelled.                     *)
(*                                                                         *)
(* Arrays are objects: `heap` maps an array reference to the array's       *)
(* contents, and points / newPoints hold references.  An in-place          *)
(* operation (push, sort) rewrites the heap cell; Array.from, [] and map   *)
(* allocate a new cell.                                                    *)
(***************************************************************************)
EXTENDS Integers, Sequences, FiniteSets, TLC

VARIABLES
    targetValue,        \* line 6: let targetValue (numerator over TargetSteps)
    numPoints,          \* line 7: let numPoints
    points,             \* line 8: let points (a reference into heap)
    approximatedSqrt,   \* line 9: let approximatedSqrt (same grid as Coord)
    actualSqrt,         \* line 10: let actualSqrt (numerator over SqrtScale)
    tempTargetValue,    \* line 13: let tempTargetValue (the numeric field)
    tempNumPoints,      \* line 14: let tempNumPoints (the numeric field)
    mounted,            \* the component is in the DOM and onMount has run
    dirty,              \* variables invalidated since the last flush
    heap,               \* contents of every live array
    newPoints,          \* line 40: const newPoints (reference) while a call runs
    i,                  \* line 42: loop counter of the chunk loop
    pc,                 \* position inside generatePoints
    prev,               \* the array `points` referred to when the call began
    prevCopy            \* what that array held at that moment

vars == << targetValue, numPoints, points, approximatedSqrt, actualSqrt,
           tempTargetValue, tempNumPoints, mounted, dirty, heap, newPoints,
           i, pc, prev, prevCopy >>

----------------------------------------------------------------------------
(* Bounds of the model *)

MinPoints == 1
MaxPoints == 3
chunkSize == 2
TargetSteps == 4
SliderSteps == 2
SqrtScale == 10

\* Values Math.random() can return, as numerators over 2: 0 and 1/2 (never 1).
Coord == {0, 1}

\* The pairs (x, y) of draws the model samples.
RandomPairs == { xy \in Coord \X Coord : xy[1] + xy[2] <= 1 }

\* Array references; NoRef is the absence of one.
Refs == {"a1", "a2", "a3"}
NoRef == "none"

Min2(a, b) == IF a <= b THEN a ELSE b
Max2(a, b) == IF a >= b THEN a ELSE b

----------------------------------------------------------------------------
(* Pure helpers of the page *)

\* Math.sqrt(targetValue), in units of 1/SqrtScale, rounded down.
Sqrt(t) ==
    CHOOSE a \in 0 .. SqrtScale :
        /\ a * a * TargetSteps <= t * SqrtScale * SqrtScale
        /\ (a + 1) * (a + 1) * TargetSteps > t * SqrtScale * SqrtScale

\* Variant of sliderToPoints: a linear map whose span is the maximum itself.
sliderToPointsLinear(s) == MinPoints + (s * MaxPoints) \div SliderSteps

\* sliderToPoints: Math.round(Math.pow(10, 2 + val * 2)), val = s / SliderSteps.
\* 10^(2 + 2 val) = 100 * (10000 / 100)^val, so with the scaled end points the
\* value is Math.round(MinPoints * (MaxPoints / MinPoints)^(s / SliderSteps)).
sliderToPoints(s) ==
    CHOOSE n \in 0 .. (MaxPoints + 1) :
        /\ (2 * n - 1) ^ SliderSteps
              <= (2 ^ SliderSteps) * (MinPoints ^ (SliderSteps - s)) * (MaxPoints ^ s)
        /\ (2 * n + 1) ^ SliderSteps
              > (2 ^ SliderSteps) * (MinPoints ^ (SliderSteps - s)) * (MaxPoints ^ s)

\* handlePointsInput, line 26: Math.max(100, Math.min(10000, tempNumPoints))
ClampPoints(v) == Max2(MinPoints, Min2(MaxPoints, v))

\* handleTargetInput, line 32: Math.max(0, Math.min(1, tempTargetValue))
ClampTarget(v) == Max2(0, Min2(TargetSteps, v))

\* One point as the Array.from callback builds it (lines 43-51).
NewPoint(a, b) == [x |-> a, y |-> b, max |-> Max2(a, b)]

Draw == { NewPoint(xy[1], xy[2]) : xy \in RandomPairs }

\* Variant of ChunkLength: every chunk is a full one.
ChunkLengthFull(n, k) == chunkSize

\* Math.min(chunkSize, numPoints - i), line 43
ChunkLength(n, k) == Min2(chunkSize, n - k)

\* Every chunk Array.from({length}, ...) can return.
ChunkSet(len) == [1 .. len -> Draw]

\* Variant of SortByMax: the array is left in generation order.
NoSort(s) == s

\* Variant of SortByMax: the comparator reversed, (a, b) => b.max - a.max.
InsertDescending(s, p) ==
    LET k == Cardinality({ j \in 1 .. Len(s) : s[j].max >= p.max })
    IN  SubSeq(s, 1, k) \o << p >> \o SubSeq(s, k + 1, Len(s))

RECURSIVE SortByMaxDescending(_)
SortByMaxDescending(s) ==
    IF Len(s) = 0 THEN << >>
    ELSE InsertDescending(SortByMaxDescending(SubSeq(s, 1, Len(s) - 1)), s[Len(s)])

\* Array.prototype.sort((a, b) => a.max - b.max): a stable sort by max.
Insert(s, p) ==
    LET k == Cardinality({ j \in 1 .. Len(s) : s[j].max <= p.max })
    IN  SubSeq(s, 1, k) \o << p >> \o SubSeq(s, k + 1, Len(s))

RECURSIVE SortByMax(_)
SortByMax(s) ==
    IF Len(s) = 0 THEN << >>
    ELSE Insert(SortByMax(SubSeq(s, 1, Len(s) - 1)), s[Len(s)])

\* Math.floor(newPoints.length * targetValue), line 59
CutoffIndex(len, t) == (len * t) \div TargetSteps

\* Variant of IsSelected: the cutoff element itself is left out.
IsSelectedStrict(idx, cutoffIndex) == idx < cutoffIndex

\* selected: i <= cutoffIndex (0-based i), line 62
IsSelected(idx, cutoffIndex) == idx <= cutoffIndex

\* newPoints.map((p, i) => ({...p, selected: i <= cutoffIndex})), lines 60-63
Select(s, cutoffIndex) ==
    [ j \in 1 .. Len(s) |->
        [x |-> s[j].x, y |-> s[j].y, max |-> s[j].max,
         selected |-> IsSelected(j - 1, cutoffIndex)] ]

\* Variant of ApproxAt: an index past the end reads the last element.
ApproxAtLast(s, cutoffIndex) ==
    IF Len(s) = 0 THEN 0 ELSE s[Min2(cutoffIndex + 1, Len(s))].max

\* points[cutoffIndex]?.max || 0, line 65 (0-based cutoffIndex)
ApproxAt(s, cutoffIndex) ==
    IF cutoffIndex + 1 \in 1 .. Len(s) THEN s[cutoffIndex + 1].max ELSE 0

\* Variant of NewArray: the array now in `points` is emptied and used again.
ReuseArray(live) == points

\* A reference to a fresh array: one no live reference points to.
NewArray(live) == CHOOSE r \in Refs : r \notin live

\* The heap with only the arrays in `live` kept.
Keep(h, live) == [ r \in Refs |-> IF r \in live THEN h[r] ELSE << >> ]

----------------------------------------------------------------------------
(* The initial state: the component's script has run, nothing is mounted *)

\* Every variable of the component: at construction Svelte runs the reactive
\* statements once with all of them marked dirty.
AllVariables == {"targetValue", "numPoints", "points", "approximatedSqrt",
                 "actualSqrt", "tempTargetValue", "tempNumPoints"}

Init ==
    /\ targetValue = TargetSteps \div 2
    /\ numPoints = sliderToPoints(SliderSteps \div 2)
    /\ points = "a1"
    /\ heap = [ r \in Refs |-> << >> ]
    /\ approximatedSqrt = 0
    /\ actualSqrt = Sqrt(TargetSteps \div 2)
    /\ tempTargetValue = TargetSteps \div 2
    /\ tempNumPoints = sliderToPoints(SliderSteps \div 2)
    /\ mounted = FALSE
    /\ dirty = AllVariables
    /\ newPoints = NoRef
    /\ i = 0
    /\ pc = "idle"
    /\ prev = NoRef
    /\ prevCopy = << >>

----------------------------------------------------------------------------
(* generatePoints of +page.svelte as one synchronous call (lines 37-69) *)

\* Every array the chunk loop (lines 42-53) can leave in newPoints, started
\* with counter k and the elements acc already pushed.
RECURSIVE ChunkLoop(_, _, _)
ChunkLoop(n, k, acc) ==
    IF k < n
    THEN UNION { ChunkLoop(n, k + chunkSize, acc \o c) :
                    c \in ChunkSet(ChunkLength(n, k)) }
    ELSE { acc }

\* Every array the loop and the sort (lines 42-56) can leave in newPoints.
SortedBatches(n) == { SortByMax(np) : np \in ChunkLoop(n, 0, << >>) }

\* SortedBatches, tabulated once.
BatchTable == [ n \in 0 .. (MaxPoints + 1) |-> SortedBatches(n) ]

\* The call with the values t, n that targetValue and numPoints hold when it
\* starts.  updatePlot() (line 68) only draws.
GeneratePoints(t, n) ==
    \E sorted \in BatchTable[n] :
        LET a == NewArray({points})
            cutoffIndex == CutoffIndex(Len(sorted), t)
            b == NewArray({points, a})
        IN  /\ points' = b
            /\ heap' = Keep([heap EXCEPT ![b] = Select(sorted, cutoffIndex)], {b})
            /\ approximatedSqrt' = ApproxAt(heap'[b], cutoffIndex)
            /\ actualSqrt' = Sqrt(t)

Generated == {"points", "approximatedSqrt", "actualSqrt"}

----------------------------------------------------------------------------
(* The page: Svelte's reactive block, onMount and the controls *)

\* Variant of ReactiveDeps: the block does not depend on targetValue.
ReactiveDepsPointsOnly == {"points"}

\* Variables the block `$: { ... }` (lines 173-178) reads and does not assign.
ReactiveDeps == {"targetValue", "points"}

\* Values a user can leave in the numeric fields (nothing clamps typing).
TargetFieldValues == {TargetSteps + 1}
PointsFieldValues == {0}

Idle == pc = "idle" /\ dirty = {}

GenUnchanged == UNCHANGED << newPoints, i, pc, prev, prevCopy >>

\* The flush Svelte runs as a microtask after a handler (and once when the
\* component is constructed): the reactive block when one of its
\* dependencies is dirty.  Invalidations made while the block runs do not
\* run it again.
Flush ==
    /\ pc = "idle"
    /\ dirty # {}
    /\ IF dirty \cap ReactiveDeps # {}
       THEN IF Len(heap[points]) > 0
            THEN GeneratePoints(targetValue, numPoints)
            ELSE /\ actualSqrt' = Sqrt(targetValue)
                 /\ UNCHANGED << points, heap, approximatedSqrt >>
       ELSE UNCHANGED << points, heap, approximatedSqrt, actualSqrt >>
    /\ dirty' = {}
    /\ UNCHANGED << targetValue, numPoints, tempTargetValue, tempNumPoints, mounted >>
    /\ GenUnchanged

\* onMount(() => generatePoints()), lines 180-182
Mount ==
    /\ Idle
    /\ ~mounted
    /\ mounted' = TRUE
    /\ GeneratePoints(targetValue, numPoints)
    /\ dirty' = Generated
    /\ UNCHANGED << targetValue, numPoints, tempTargetValue, tempNumPoints >>
    /\ GenUnchanged

\* Dragging the target slider: bind:value={targetValue}, line 215
TargetSliderInput(v) ==
    /\ Idle
    /\ mounted
    /\ targetValue' = v
    /\ dirty' = IF v # targetValue THEN {"targetValue"} ELSE {}
    /\ UNCHANGED << numPoints, points, heap, approximatedSqrt, actualSqrt,
                    tempTargetValue, tempNumPoints, mounted >>
    /\ GenUnchanged

\* Releasing the target slider: the binding, then on:change, lines 215-219
TargetSliderChange(v) ==
    /\ Idle
    /\ mounted
    /\ targetValue' = v
    /\ tempTargetValue' = v
    /\ GeneratePoints(v, numPoints)
    /\ dirty' = Generated \cup {"targetValue", "tempTargetValue"}
    /\ UNCHANGED << numPoints, tempNumPoints, mounted >>
    /\ GenUnchanged

\* Releasing the points slider: on:change, lines 236-240
PointsSliderChange(s) ==
    /\ Idle
    /\ mounted
    /\ numPoints' = sliderToPoints(s)
    /\ tempNumPoints' = sliderToPoints(s)
    /\ GeneratePoints(targetValue, sliderToPoints(s))
    /\ dirty' = Generated \cup {"numPoints", "tempNumPoints"}
    /\ UNCHANGED << targetValue, tempTargetValue, mounted >>
    /\ GenUnchanged

\* Typing in the target number field: bind:value={tempTargetValue}, line 221
TargetFieldEdit(v) ==
    /\ Idle
    /\ mounted
    /\ v # tempTargetValue
    /\ tempTargetValue' = v
    /\ dirty' = {"tempTargetValue"}
    /\ UNCHANGED << targetValue, numPoints, points, heap, approximatedSqrt,
                    actualSqrt, tempNumPoints, mounted >>
    /\ GenUnchanged

\* Typing in the points number field: bind:value={tempNumPoints}, line 242
PointsFieldEdit(v) ==
    /\ Idle
    /\ mounted
    /\ v # tempNumPoints
    /\ tempNumPoints' = v
    /\ dirty' = {"tempNumPoints"}
    /\ UNCHANGED << targetValue, numPoints, points, heap, approximatedSqrt,
                    actualSqrt, tempTargetValue, mounted >>
    /\ GenUnchanged

\* <button on:click={generatePoints}>, line 247
ButtonClick ==
    /\ Idle
    /\ mounted
    /\ GeneratePoints(targetValue, numPoints)
    /\ dirty' = Generated
    /\ UNCHANGED << targetValue, numPoints, tempTargetValue, tempNumPoints, mounted >>
    /\ GenUnchanged

SliderTarget == \E v \in 0 .. TargetSteps : TargetSliderInput(v)
ReleaseTarget == \E v \in 0 .. TargetSteps : TargetSliderChange(v)
ReleasePoints == \E s \in 0 .. SliderSteps : PointsSliderChange(s)
EditTarget == \E v \in TargetFieldValues : TargetFieldEdit(v)
EditPoints == \E v \in PointsFieldValues : PointsFieldEdit(v)

Next ==
    \/ Flush
    \/ Mount
    \/ SliderTarget
    \/ ReleaseTarget
    \/ ReleasePoints
    \/ EditTarget
    \/ EditPoints
    \/ ButtonClick

Spec == Init /\ [][Next]_vars

----------------------------------------------------------------------------
(* generatePoints of +page.svelte statement by statement (lines 37-69),    *)
(* called any number of times with inputs from the clamped domain.  The    *)
(* page's own bookkeeping (mounted, dirty, the numeric fields) stays as    *)
(* Init leaves it.                                                         *)

PageUnchanged == UNCHANGED << tempTargetValue, tempNumPoints, mounted, dirty >>

\* Entry: const newPoints = [] (line 40) and let i = 0 (line 42).  prev and
\* prevCopy record the array a caller of the previous call still holds.
GenCall(t, n) ==
    /\ pc \in {"idle", "done"}
    /\ targetValue' = t
    /\ numPoints' = n
    /\ prev' = points
    /\ prevCopy' = heap[points]
    /\ newPoints' = NewArray({points})
    /\ heap' = [Keep(heap, {points}) EXCEPT ![newPoints'] = << >>]
    /\ i' = 0
    /\ pc' = "loop"
    /\ UNCHANGED << points, approximatedSqrt, actualSqrt >>
    /\ PageUnchanged

\* One iteration of the loop: newPoints.push(...chunk), lines 42-53
GenChunk ==
    /\ pc = "loop"
    /\ i < numPoints
    /\ \E c \in ChunkSet(ChunkLength(numPoints, i)) :
          heap' = [heap EXCEPT ![newPoints] = @ \o c]
    /\ i' = i + chunkSize
    /\ UNCHANGED << targetValue, numPoints, points, approximatedSqrt, actualSqrt,
                    newPoints, pc, prev, prevCopy >>
    /\ PageUnchanged

\* Loop exit and newPoints.sort(...) in place, line 56
GenSort ==
    /\ pc = "loop"
    /\ ~(i < numPoints)
    /\ heap' = [heap EXCEPT ![newPoints] = SortByMax(@)]
    /\ pc' = "select"
    /\ UNCHANGED << targetValue, numPoints, points, approximatedSqrt, actualSqrt,
                    newPoints, i, prev, prevCopy >>
    /\ PageUnchanged

\* Lines 59-68: the cutoff, points = newPoints.map(...), the two results.
GenSelect ==
    /\ pc = "select"
    /\ LET cutoffIndex == CutoffIndex(Len(heap[newPoints]), targetValue)
           b == NewArray({points, newPoints})
       IN  /\ points' = b
           /\ heap' = Keep([heap EXCEPT ![b] = Select(heap[newPoints], cutoffIndex)],
                           {b, prev})
           /\ approximatedSqrt' = ApproxAt(heap'[b], cutoffIndex)
    /\ actualSqrt' = Sqrt(targetValue)
    /\ newPoints' = NoRef
    /\ i' = 0
    /\ pc' = "done"
    /\ UNCHANGED << targetValue, numPoints, prev, prevCopy >>
    /\ PageUnchanged

Call == \E t \in 0 .. TargetSteps, n \in MinPoints .. MaxPoints : GenCall(t, n)

NextGen ==
    \/ Call
    \/ GenChunk
    \/ GenSort
    \/ GenSelect

SpecGen == Init /\ [][NextGen]_vars

----------------------------------------------------------------------------
(* The earlier variant of the page, src/unnamed/part_000: no sliders, the  *)
(* number fields are bound to targetValue and numPoints themselves         *)

\* One point as the variant's Array.from callback builds it (lines 14-23).
NewPoint0(a, b) == [x |-> a, y |-> b, max |-> Max2(a, b), selected |-> FALSE]

Draw0 == { NewPoint0(xy[1], xy[2]) : xy \in RandomPairs }

\* Every array lines 14-26 can leave in points: Array.from of numPoints
\* elements, sorted in place.
SortedBatches0(n) == { SortByMax(np) : np \in [1 .. n -> Draw0] }

BatchTable0 == [ n \in 0 .. (MaxPoints + 1) |-> SortedBatches0(n) ]

\* Math.floor(points.length * Math.sqrt(targetValue)), line 27: the largest k
\* with k <= len * sqrt(t / TargetSteps).
CutoffIndex0(len, t) ==
    CHOOSE k \in 0 .. len :
        /\ k * k * TargetSteps <= len * len * t
        /\ (k + 1) * (k + 1) * TargetSteps > len * len * t

\* generatePoints of the variant, lines 12-37.
GeneratePoints0(t, n) ==
    \E sorted \in BatchTable0[n] :
        LET a == NewArray({points})
            cutoffIndex == CutoffIndex0(Len(sorted), t)
            b == NewArray({a})
        IN  /\ points' = b
            /\ heap' = Keep([heap EXCEPT ![b] = Select(sorted, cutoffIndex)], {b})
            /\ approximatedSqrt' = ApproxAt(heap'[b], cutoffIndex)
            /\ actualSqrt' = Sqrt(t)

V0Unchanged == UNCHANGED << tempTargetValue, tempNumPoints, newPoints, i, pc,
                            prev, prevCopy >>

\* The variant's reactive block, lines 74-79, run by the flush.
V0Flush ==
    /\ dirty # {}
    /\ IF dirty \cap ReactiveDeps # {}
       THEN IF Len(heap[points]) > 0
            THEN GeneratePoints0(targetValue, numPoints)
            ELSE /\ actualSqrt' = Sqrt(targetValue)
                 /\ UNCHANGED << points, heap, approximatedSqrt >>
       ELSE UNCHANGED << points, heap, approximatedSqrt, actualSqrt >>
    /\ dirty' = {}
    /\ UNCHANGED << targetValue, numPoints, mounted >>
    /\ V0Unchanged

\* onMount, lines 81-83
V0Mount ==
    /\ dirty = {}
    /\ ~mounted
    /\ mounted' = TRUE
    /\ GeneratePoints0(targetValue, numPoints)
    /\ dirty' = Generated
    /\ UNCHANGED << targetValue, numPoints >>
    /\ V0Unchanged

\* <input type="number" bind:value={targetValue}>, line 109
V0TargetField(v) ==
    /\ dirty = {}
    /\ mounted
    /\ v # targetValue
    /\ targetValue' = v
    /\ dirty' = {"targetValue"}
    /\ UNCHANGED << numPoints, points, heap, approximatedSqrt, actualSqrt, mounted >>
    /\ V0Unchanged

\* <input type="number" bind:value={numPoints}>, line 114
V0PointsField(n) ==
    /\ dirty = {}
    /\ mounted
    /\ n # numPoints
    /\ numPoints' = n
    /\ dirty' = {"numPoints"}
    /\ UNCHANGED << targetValue, points, heap, approximatedSqrt, actualSqrt, mounted >>
    /\ V0Unchanged

\* <button on:click={generatePoints}>, line 117
V0Click ==
    /\ dirty = {}
    /\ mounted
    /\ GeneratePoints0(targetValue, numPoints)
    /\ dirty' = Generated
    /\ UNCHANGED << targetValue, numPoints, mounted >>
    /\ V0Unchanged

\* The fields are given values of the clamped domain only.
V0EditTarget == \E v \in 0 .. TargetSteps : V0TargetField(v)
V0EditPoints == \E n \in MinPoints .. MaxPoints : V0PointsField(n)

NextV0 ==
    \/ V0Flush
    \/ V0Mount
    \/ V0EditTarget
    \/ V0EditPoints
    \/ V0Click

SpecV0 == Init /\ [][NextV0]_vars

----------------------------------------------------------------------------
(* Vocabulary of the claims *)

\* The published array.
Pts == heap[points]

\* floor(numPoints * targetValue), from its defining inequalities.
FloorNT ==
    CHOOSE k \in 0 .. (numPoints * TargetSteps) :
        /\ k * TargetSteps <= numPoints * targetValue
        /\ (k + 1) * TargetSteps > numPoints * targetValue

\* 1-based positions of the points marked selected.
SelectedPos == { j \in 1 .. Len(Pts) : Pts[j].selected }

MaxOf(S) == CHOOSE m \in S : \A k \in S : k <= m

\* The selected flags are those of the ranks <= floor(numPoints * targetValue).
FlagsFollowCutoff ==
    /\ SelectedPos = { j \in 1 .. Len(Pts) : j - 1 <= FloorNT }
    /\ Cardinality(SelectedPos) = Max2(0, Min2(FloorNT + 1, numPoints))

\* approximatedSqrt is the max at index floor(numPoints * targetValue), or 0.
ApproxFollowsCutoff ==
    approximatedSqrt = IF FloorNT < Len(Pts) THEN Pts[FloorNT + 1].max ELSE 0

----------------------------------------------------------------------------
(* Claims about generatePoints, under SpecGen *)

\* C1: after generatePoints the number of selected points is
\* floor(numPoints * targetValue) + 1 clamped to [0, numPoints], and the
\* selected points are exactly those at 0-based ranks <= that floor.
C1_SelectedCountAndRanks == pc = "done" => FlagsFollowCutoff

C1_Witness ==
    /\ pc = "done"
    /\ numPoints = MaxPoints
    /\ FloorNT >= 1
    /\ \E j \in 1 .. Len(Pts) : ~Pts[j].selected

\* C2: after generatePoints approximatedSqrt is the max of the element at
\* index floor(numPoints * targetValue) when that index is within bounds, and
\* 0 when it is not.
C2_ApproxAtCutoffOrZero == pc = "done" => ApproxFollowsCutoff

C2_Witness ==
    /\ pc = "done"
    /\ FloorNT >= Len(Pts)
    /\ approximatedSqrt = 0
    /\ \E j \in 1 .. Len(Pts) : Pts[j].max > 0

\* C3 as claimed: after generatePoints approximatedSqrt is the largest max
\* among the selected points, for every targetValue in [0, 1].
C3_ApproxIsMaxOfSelected ==
    pc = "done" => approximatedSqrt = MaxOf({ Pts[j].max : j \in SelectedPos })

\* C3 as amended: approximatedSqrt is the largest max among the selected
\* points whenever targetValue < 1; at targetValue = 1 the cutoff index is
\* past the end, every point is selected and approximatedSqrt is 0.
C3_ApproxIsMaxOfSelectedBelowOne ==
    pc = "done" =>
        IF targetValue < TargetSteps
        THEN approximatedSqrt = MaxOf({ Pts[j].max : j \in SelectedPos })
        ELSE SelectedPos = 1 .. Len(Pts) /\ approximatedSqrt = 0

C3_Witness ==
    /\ pc = "done"
    /\ targetValue < TargetSteps
    /\ Cardinality(SelectedPos) >= 2
    /\ approximatedSqrt > Pts[1].max

\* C4: the chunk loop ends with exactly numPoints elements whatever the
\* remainder of numPoints by the chunk size: while it runs newPoints holds
\* min(i, numPoints) elements and i stays below numPoints + chunkSize, the
\* sort runs on all numPoints elements, and the published array has numPoints.
C4_ChunkedLengthIsNumPoints ==
    /\ pc = "loop" =>
          /\ Len(heap[newPoints]) = Min2(i, numPoints)
          /\ i < numPoints + chunkSize
          /\ Len(heap[points]) = Len(prevCopy)
    /\ pc = "select" => Len(heap[newPoints]) = numPoints /\ ~(i < numPoints)
    /\ pc = "done" => Len(Pts) = numPoints

C4_Witness ==
    /\ pc = "done"
    /\ numPoints > chunkSize
    /\ numPoints % chunkSize # 0
    /\ Len(Pts) = numPoints

\* C5: the published sequence is non-decreasing in max, so no selected point
\* has a larger max than an unselected one, and the selection pass keeps the
\* order the sort produced.
C5_Sorted ==
    /\ \A j \in 1 .. (Len(Pts) - 1) : Pts[j].max <= Pts[j + 1].max
    /\ \A a \in SelectedPos : \A b \in (1 .. Len(Pts)) \ SelectedPos :
          Pts[a].max <= Pts[b].max

C5_OrderKept ==
    (pc = "select" /\ pc' = "done") =>
        /\ Len(heap'[points']) = Len(heap[newPoints])
        /\ \A j \in 1 .. Len(heap[newPoints]) :
              /\ heap'[points'][j].x = heap[newPoints][j].x
              /\ heap'[points'][j].y = heap[newPoints][j].y
              /\ heap'[points'][j].max = heap[newPoints][j].max

C5_SortedAndOrderKept == [](pc = "done" => C5_Sorted) /\ [][C5_OrderKept]_vars

C5_Witness ==
    /\ pc = "done"
    /\ \E j \in 1 .. (Len(Pts) - 1) : Pts[j].max < Pts[j + 1].max
    /\ \E j \in 1 .. Len(Pts) : ~Pts[j].selected

\* C9: a call leaves the array that was in `points` when it began exactly as
\* it was, and publishes another array.
C9_PreviousSetUntouched ==
    prev # NoRef =>
        /\ heap[prev] = prevCopy
        /\ pc = "done" => points # prev

C9_Witness ==
    /\ pc = "done"
    /\ Len(prevCopy) > 0
    /\ heap[prev] = prevCopy
    /\ Pts # prevCopy

----------------------------------------------------------------------------
(* Claims about the page, under Spec *)

Quiescent == mounted /\ dirty = {} /\ pc = "idle"

\* C6: in every reachable state targetValue is in [0, 1] and numPoints is an
\* integer in [100, 10000] (here: MinPoints .. MaxPoints).
C6_ParametersInRange ==
    /\ targetValue \in 0 .. TargetSteps
    /\ numPoints \in MinPoints .. MaxPoints

C6_Witness ==
    /\ Quiescent
    /\ numPoints = MaxPoints
    /\ targetValue = 0
    /\ tempTargetValue > TargetSteps
    /\ tempNumPoints < MinPoints

\* C7 as claimed: when the task of an edit of a numeric field is over, the
\* field's value was clamped into targetValue / numPoints and the field shows
\* the stored value.
C7_FieldEditForwarded ==
    [][ /\ (dirty = {"tempTargetValue"} /\ dirty' = {}) =>
            /\ targetValue' = ClampTarget(tempTargetValue)
            /\ tempTargetValue' = targetValue'
        /\ (dirty = {"tempNumPoints"} /\ dirty' = {}) =>
            /\ numPoints' = ClampPoints(tempNumPoints)
            /\ tempNumPoints' = numPoints' ]_vars

\* C8: in every quiescent state of the mounted page the output belongs to the
\* current inputs: points has numPoints elements, its flags and
\* approximatedSqrt follow floor(numPoints * targetValue), and actualSqrt is
\* the square root of targetValue.
C8_OutputNeverStale ==
    Quiescent =>
        /\ Len(Pts) = numPoints
        /\ FlagsFollowCutoff
        /\ ApproxFollowsCutoff
        /\ actualSqrt * actualSqrt * TargetSteps <= targetValue * SqrtScale * SqrtScale
        /\ (actualSqrt + 1) * (actualSqrt + 1) * TargetSteps
              > targetValue * SqrtScale * SqrtScale

C8_Witness ==
    /\ Quiescent
    /\ tempTargetValue \in 0 .. TargetSteps
    /\ tempTargetValue # targetValue
    /\ FloorNT # (numPoints * tempTargetValue) \div TargetSteps

----------------------------------------------------------------------------
(* Claim about the earlier variant, under SpecV0 *)

\* C10 as claimed: the variant's generatePoints selects
\* floor(numPoints * targetValue) + 1 points (clamped to numPoints) and reads
\* approximatedSqrt at index floor(numPoints * targetValue).
C10_VariantUsesSameCutoff ==
    (mounted /\ dirty = {} /\ Len(Pts) = numPoints) =>
        /\ FlagsFollowCutoff
        /\ ApproxFollowsCutoff

====
